---- MODULE Spec2Model ----
(***************************************************************************)
(* Crypto ML Platform: the MLPlatform controller (src/js/main.js), the     *)
(* ModelBuilder (src/unnamed/part_000) and the optimized DataProcessor     *)
(* (src/js/dataProcessor.js, second class).                                *)
(*                                                                         *)
(* JavaScript runs one task at a time: an async method runs atomically     *)
(* from one await to the next, so every action below is the code between   *)
(* two suspension points of one invocation, or one synchronous handler.    *)
(*                                                                         *)
(* Spec      the controller with its collaborators; series, feature        *)
(*           vectors and scalers are symbolic terms (which series, which   *)
(*           source index, which rows the scaler was fit on).              *)
(* SpecData  the DataProcessor's normalizeFeatures and splitData on small  *)
(*           feature matrices of small binary floating-point numbers.      *)
(***************************************************************************)
EXTENDS Integers, Sequences, FiniteSets, TLC

(***************************************************************************)
(* Bounds of the exploration.                                              *)
(***************************************************************************)
MaxCalls == 2        \* invocations of async handlers pending at once
MaxEvents == 5       \* handler calls that start work, in one run
ShortLen == 23       \* a payload giving 12 vectors (9 train / 3 test)
LongLen == 32        \* a payload giving 21 vectors (16 train / 5 test)
MaxRows == 3         \* feature vectors in a numeric data set
FeatureCount == 2    \* features per vector in a numeric data set
MantissaBits == 3    \* significand width of the modelled floating point
MaxSplits == 2       \* splitData() calls on one numeric data set
MaxLength == 3       \* elements of a prediction or actual array
MaxTicks == 3        \* ticks of the price-update interval
MaxSeries == 5       \* prices of an exhaustively drawn series
ExtraPoints == 1     \* prices beyond period + 1 in a 14-period series
MaxOps == 4          \* calls made on one numeric DataProcessor
MaxPrices == 7       \* prices of a series whose moving average is taken

(***************************************************************************)
(* Program constants.                                                      *)
(***************************************************************************)
syntheticDataPoints == 100   \* DATA_CONFIG.syntheticDataPoints
trainTestSplitNum == 4       \* DATA_CONFIG.trainTestSplit = 0.8 = 4/5
trainTestSplitDen == 5
MinRawData == 20             \* processFeatures: rawData.length < 20 throws
FirstIndex == 10             \* processFeatures: for (let i = 10; ...)
MinTrain == 10               \* trainModel: train.length < 10
MinTest == 5                 \* trainModel: test.length < 5
rsiPeriod == 14              \* calculateRSIArray(prices, period = 14)

Cryptos == {"xrp", "btc"}    \* keys of CRYPTO_CONFIG the selection offers

VARIABLES
    currentCrypto,      \* MLPlatform.currentCrypto
    applicationState,   \* MLPlatform.applicationState
    model,              \* ModelBuilder.model: 0 is null, else an index of tfModels
    trainingHistory,    \* ModelBuilder.trainingHistory: 0 is null, else the model fit
    tfModels,           \* every tf.sequential created so far, in creation order
    chart,              \* ChartManager.chart
    metrics,            \* the metrics shown by UIManager
    rawData,            \* DataProcessor.rawData
    processedData,      \* DataProcessor.processedData
    scaler,             \* DataProcessor.scaler
    cache,              \* DataProcessor.cache
    calls,              \* pending invocations of loadData / trainModel / predict
    session,            \* history: number of selectCrypto / reset calls so far
    events,             \* history: number of handler calls that started work
    outcome,            \* history: what the latest step returned or reported
    unloaded,           \* the page's beforeunload handler has run
    loaded,             \* history: item.features of processedData as first built
    featureRows,        \* item.features of processedData, row by row, with numbers
    featureScaler,      \* DataProcessor.scaler {means, stds}, with numbers
    splits,             \* history: the splitData() calls made and what they returned
    input,              \* the arguments of the function or callback under study
    output              \* what it returned, threw or delivered

vars == <<currentCrypto, applicationState, model, trainingHistory, tfModels,
          chart, metrics, rawData, processedData, scaler, cache, calls,
          session, events, outcome, unloaded, loaded, featureRows, featureScaler,
          splits, input, output>>

dataVars == <<loaded, featureRows, featureScaler, splits, input, output>>

fnVars == <<input, output>>

numVars == <<loaded, featureRows, featureScaler, splits>>

ctlVars == <<currentCrypto, applicationState, model, trainingHistory, tfModels,
             chart, metrics, rawData, processedData, scaler, cache, calls,
             session, events, outcome, unloaded>>

Slots == 1..MaxCalls

(***************************************************************************)
(* DataProcessor, symbolically.  A series is its identity and its length.  *)
(* The processed vectors are a run of source indices lo..hi of one series, *)
(* all normalized by one scaler; a scaler is the series and the run of     *)
(* source indices whose vectors it was fit on.                             *)
(***************************************************************************)
NoData == [id |-> 0, len |-> 0]                          \* rawData = []
NoScaler == [series |-> NoData, lo |-> 0, hi |-> -1]     \* scaler = null
NoVectors == [series |-> NoData, lo |-> 0, hi |-> -1, scaler |-> NoScaler]
NoChart == [chart |-> FALSE, predictions |-> 0]
NoMetrics == 0
IdleCall == [op |-> "none", pc |-> "idle", session |-> 0, mdl |-> 0,
             evalMdl |-> 0, scaler |-> NoScaler]
NoOutcome == [op |-> "none", result |-> "none"]

FreshState == [dataLoaded |-> FALSE, modelTrained |-> FALSE, isProcessing |-> FALSE]

TinyLen == MinRawData - 1    \* a payload too short for processFeatures
Lengths == {TinyLen, ShortLen, LongLen, syntheticDataPoints}
AllSeries == {[id |-> 1, len |-> n] : n \in Lengths}

\* Array.length of a run of vectors.
Length(pd) == pd.hi - pd.lo + 1

\* processFeatures, the loop: one vector per index 10 .. length-2, not yet
\* normalized; the target of the vector of index i is the price at i+1.
FeatureLoop(rd) ==
    [series |-> rd, lo |-> FirstIndex, hi |-> rd.len - 2, scaler |-> NoScaler]

\* normalizeFeatures, the vectors its reduce() calls run over: all of them.
FitRows(pd) == [lo |-> pd.lo, hi |-> pd.hi]

\* normalizeFeatures, means and stds: the scaler fit on FitRows(pd).
FitScaler(pd) ==
    [series |-> pd.series, lo |-> FitRows(pd).lo, hi |-> FitRows(pd).hi]

\* normalizeFeatures: fit, then "normalize in place"; nothing on no vectors.
NormalizeFeatures(pd, sc) ==
    IF Length(pd) = 0
    THEN [processedData |-> pd, scaler |-> sc]
    ELSE [processedData |-> [pd EXCEPT !.scaler = FitScaler(pd)],
          scaler |-> FitScaler(pd)]

\* generateCacheKey: the fingerprint of the series' prices.  Symbolically two
\* series have the same key exactly when they are the same series.
GenerateCacheKey(rd) == <<"processed", rd.id, rd.len>>

\* processFeatures as a whole: [threw, processedData, scaler, cache].
ProcessFeatures(rd, pd, sc, ch) ==
    IF rd.len < MinRawData
    THEN [threw |-> TRUE, processedData |-> pd, scaler |-> sc, cache |-> ch]
    ELSE IF GenerateCacheKey(rd) \in DOMAIN ch
    THEN [threw |-> FALSE, processedData |-> ch[GenerateCacheKey(rd)],
          scaler |-> sc, cache |-> ch]
    ELSE LET n == NormalizeFeatures(FeatureLoop(rd), sc)
         IN  [threw |-> FALSE, processedData |-> n.processedData,
              scaler |-> n.scaler,
              cache |-> [k \in DOMAIN ch \cup {GenerateCacheKey(rd)} |->
                            IF k = GenerateCacheKey(rd) THEN n.processedData
                            ELSE ch[k]]]

\* splitData: the boundary index floor(length * ratio), ratio = num/den.
SplitIndex(n, num, den) == (n * num) \div den

\* splitData: slice(0, splitIndex) and slice(splitIndex).
SplitData(pd, num, den) ==
    LET splitIndex == SplitIndex(Length(pd), num, den)
    IN  [train |-> [pd EXCEPT !.hi = pd.lo + splitIndex - 1],
         test |-> [pd EXCEPT !.lo = pd.lo + splitIndex]]

\* getLatestFeatures: the features of the last processed vector, or null.
GetLatestFeatures(pd) ==
    IF Length(pd) > 0
    THEN [null |-> FALSE, series |-> pd.series, index |-> pd.hi, scaler |-> pd.scaler]
    ELSE [null |-> TRUE, series |-> NoData, index |-> -1, scaler |-> NoScaler]

\* getCurrentPrice: null exactly when there is no raw data.
HasCurrentPrice(rd) == rd.len > 0

(***************************************************************************)
(* ModelBuilder.                                                           *)
(***************************************************************************)
NewModel(sc) ==
    [disposed |-> 0, fitted |-> FALSE, scaler |-> sc, loss |-> "none", tensors |-> 4]

\* buildModel / buildNeuralNetwork: this.model = tf.sequential(...).  The model
\* held before is overwritten as it is.
BuildModel(ms, sc) ==
    [model |-> Len(ms) + 1, tfModels |-> Append(ms, NewModel(sc))]

\* dispose: release the current model, if any, and forget it.
Dispose(m, ms) ==
    [model |-> 0,
     tfModels |-> IF m # 0 THEN [ms EXCEPT ![m].disposed = @ + 1] ELSE ms]

\* isReady
IsReady == model # 0

(***************************************************************************)
(* MLPlatform.                                                             *)
(***************************************************************************)
Pending == {c \in Slots : calls[c].op # "none"}
HasFree == Pending # Slots
Free == CHOOSE c \in Slots \ Pending : \A d \in Slots \ Pending : c <= d

Returned(op, result) == outcome' = [op |-> op, result |-> result]

\* A handler call that starts work is counted, up to the bound.
Counted == events < MaxEvents /\ events' = events + 1

\* The guard every async handler starts with.
Busy == applicationState.isProcessing

SetProcessing(b) == applicationState' = [applicationState EXCEPT !.isProcessing = b]

InitCtl ==
    /\ currentCrypto = "xrp"
    /\ applicationState = FreshState
    /\ model = 0
    /\ trainingHistory = 0
    /\ tfModels = <<>>
    /\ chart = NoChart
    /\ metrics = NoMetrics
    /\ rawData = NoData
    /\ processedData = NoVectors
    /\ scaler = NoScaler
    /\ cache = <<>>
    /\ calls = [c \in Slots |-> IdleCall]
    /\ session = 0
    /\ events = 0
    /\ outcome = NoOutcome
    /\ unloaded = FALSE

NoStats == [means |-> <<>>, stds |-> <<>>]    \* scaler = null

None == [fn |-> "none"]

InitFn == input = None /\ output = None

InitNum ==
    /\ loaded = <<>>
    /\ featureRows = <<>>
    /\ featureScaler = NoStats
    /\ splits = <<>>

Init == InitCtl /\ InitNum /\ InitFn

\* selectCrypto(): the selection changed to crypto k.
SelectCrypto(k) ==
    /\ ~unloaded
    /\ k # currentCrypto
    /\ Counted
    /\ currentCrypto' = k
    /\ applicationState' = FreshState
    /\ metrics' = NoMetrics
    /\ chart' = NoChart
    /\ model' = Dispose(model, tfModels).model
    /\ tfModels' = Dispose(model, tfModels).tfModels
    /\ trainingHistory' = 0
    /\ session' = session + 1
    /\ Returned("selectCrypto", "done")
    /\ UNCHANGED <<rawData, processedData, scaler, cache, calls, unloaded>>
    /\ UNCHANGED dataVars

\* reset(): DataProcessor.reset, ModelBuilder.dispose, chart and state reset.
Reset ==
    /\ ~unloaded
    /\ Counted
    /\ rawData' = NoData
    /\ processedData' = NoVectors
    /\ scaler' = NoScaler
    /\ cache' = <<>>
    /\ model' = Dispose(model, tfModels).model
    /\ tfModels' = Dispose(model, tfModels).tfModels
    /\ trainingHistory' = 0
    /\ chart' = NoChart
    /\ applicationState' = FreshState
    /\ metrics' = NoMetrics
    /\ session' = session + 1
    /\ Returned("reset", "done")
    /\ UNCHANGED <<currentCrypto, calls, unloaded>>
    /\ UNCHANGED dataVars

\* The beforeunload handler: dispose the model, destroy the chart.
BeforeUnload ==
    /\ ~unloaded
    /\ model' = Dispose(model, tfModels).model
    /\ tfModels' = Dispose(model, tfModels).tfModels
    /\ trainingHistory' = 0
    /\ chart' = NoChart
    /\ unloaded' = TRUE
    /\ Returned("beforeunload", "done")
    /\ UNCHANGED <<currentCrypto, applicationState, metrics, rawData,
                   processedData, scaler, cache, calls, session, events>>
    /\ UNCHANGED dataVars

\* loadData(), up to its await.
LoadData ==
    /\ ~unloaded
    /\ IF Busy
       THEN /\ Returned("loadData", "noop")
            /\ UNCHANGED <<applicationState, calls, events>>
       ELSE /\ HasFree
            /\ Counted
            /\ SetProcessing(TRUE)
            /\ calls' = [calls EXCEPT ![Free] =
                            [IdleCall EXCEPT !.op = "load", !.pc = "fetch",
                                             !.session = session]]
            /\ Returned("loadData", "pending")
    /\ UNCHANGED <<currentCrypto, model, trainingHistory, tfModels, chart,
                   metrics, rawData, processedData, scaler, cache, session,
                   unloaded>>
    /\ UNCHANGED dataVars

\* loadData(), from the settled fetch to its end.  rd is the series the fetch
\* produced: the payload, or the synthetic fallback.
LoadDataResume(c, rd) ==
    /\ ~unloaded
    /\ calls[c].op = "load" /\ calls[c].pc = "fetch"
    /\ LET r == ProcessFeatures(rd, processedData, scaler, cache)
       IN  /\ rawData' = rd
           /\ processedData' = r.processedData
           /\ scaler' = r.scaler
           /\ cache' = r.cache
           /\ IF r.threw
              THEN /\ SetProcessing(FALSE)
                   /\ Returned("loadData", "FeatureProcessingError")
                   /\ UNCHANGED chart
              ELSE /\ chart' = [chart |-> TRUE, predictions |-> 0]
                   /\ applicationState' = [applicationState EXCEPT
                                              !.dataLoaded = TRUE,
                                              !.isProcessing = FALSE]
                   /\ Returned("loadData", "loaded")
    /\ calls' = [calls EXCEPT ![c] = IdleCall]
    /\ UNCHANGED <<currentCrypto, model, trainingHistory, tfModels, metrics,
                   session, events, unloaded>>
    /\ UNCHANGED dataVars

\* A weaker check: only an empty partition is refused.
InsufficientSplit_EmptyOnly(split) ==
    Length(split.train) < 1 \/ Length(split.test) < 1

\* trainModel(): "train.length < 10 || test.length < 5".
InsufficientSplit(split) ==
    Length(split.train) < MinTrain \/ Length(split.test) < MinTest

\* trainModel(), up to its first await: guard, split check, tensors,
\* buildModel, and ModelBuilder.trainModel up to model.fit.
TrainModel ==
    /\ ~unloaded
    /\ IF Busy \/ ~applicationState.dataLoaded
       THEN /\ Returned("trainModel", "noop")
            /\ UNCHANGED <<applicationState, calls, model, tfModels, events>>
       ELSE LET split == SplitData(processedData, trainTestSplitNum,
                                   trainTestSplitDen)
            IN  IF InsufficientSplit(split)
                THEN /\ Counted
                     /\ SetProcessing(FALSE)
                     /\ Returned("trainModel", "InsufficientData")
                     /\ UNCHANGED <<calls, model, tfModels>>
                ELSE LET built == BuildModel(tfModels, split.train.scaler)
                     IN  /\ HasFree
                         /\ Counted
                         /\ SetProcessing(TRUE)
                         /\ model' = built.model
                         /\ tfModels' = built.tfModels
                         /\ calls' = [calls EXCEPT ![Free] =
                                [IdleCall EXCEPT !.op = "train", !.pc = "fit",
                                                 !.session = session,
                                                 !.mdl = built.model]]
                         /\ Returned("trainModel", "pending")
    /\ UNCHANGED <<currentCrypto, trainingHistory, chart, metrics, rawData,
                   processedData, scaler, cache, session, unloaded>>
    /\ UNCHANGED dataVars

\* A catch block that leaves the guard as it is.
TrainCatch_KeepsGuard(c, result) ==
    /\ UNCHANGED applicationState
    /\ Returned("trainModel", result)
    /\ calls' = [calls EXCEPT ![c] = IdleCall]

\* The catch block of trainModel(), run by invocation c.
TrainCatch(c, result) ==
    /\ SetProcessing(FALSE)
    /\ Returned("trainModel", result)
    /\ calls' = [calls EXCEPT ![c] = IdleCall]

\* trainModel(), from the settled model.fit to the next await: ModelBuilder
\* stores the history, then evaluateModel runs up to predictions.data().
\* ok tells whether fit resolved or rejected.
TrainModelAfterFit(c, ok, loss) ==
    /\ ~unloaded
    /\ calls[c].op = "train" /\ calls[c].pc = "fit"
    /\ IF ~ok
       THEN /\ TrainCatch(c, "TrainingFailed")
            /\ UNCHANGED <<trainingHistory, tfModels>>
       ELSE /\ trainingHistory' = calls[c].mdl
            /\ tfModels' = [tfModels EXCEPT ![calls[c].mdl].fitted = TRUE,
                                            ![calls[c].mdl].loss = loss]
            /\ IF model = 0
               THEN TrainCatch(c, "EvaluationFailed")
               ELSE /\ calls' = [calls EXCEPT ![c].pc = "evaluate",
                                              ![c].evalMdl = model]
                    /\ Returned("trainModel", "fitted")
                    /\ UNCHANGED applicationState
    /\ UNCHANGED <<currentCrypto, model, chart, metrics, rawData,
                   processedData, scaler, cache, session, events, unloaded>>
    /\ UNCHANGED dataVars

\* trainModel(), from evaluateModel's result to the await of the chart
\* predictions: this.modelBuilder.model.predict(testX).
TrainModelAfterEvaluate(c) ==
    /\ ~unloaded
    /\ calls[c].op = "train" /\ calls[c].pc = "evaluate"
    /\ IF model = 0
       THEN TrainCatch(c, "TypeError")
       ELSE /\ calls' = [calls EXCEPT ![c].pc = "predictions"]
            /\ Returned("trainModel", "evaluated")
            /\ UNCHANGED applicationState
    /\ UNCHANGED <<currentCrypto, model, trainingHistory, tfModels, chart,
                   metrics, rawData, processedData, scaler, cache, session,
                   events, unloaded>>
    /\ UNCHANGED dataVars

\* trainModel(), from the chart predictions to its end.
TrainModelFinish(c) ==
    /\ ~unloaded
    /\ calls[c].op = "train" /\ calls[c].pc = "predictions"
    /\ chart' = IF chart.chart
                THEN [chart EXCEPT !.predictions = @ + 1]
                ELSE chart
    /\ applicationState' = [applicationState EXCEPT !.modelTrained = TRUE,
                                                    !.isProcessing = FALSE]
    /\ metrics' = calls[c].evalMdl
    /\ tfModels' = [tfModels EXCEPT ![calls[c].mdl].tensors = 0]
    /\ Returned("trainModel", "trained")
    /\ calls' = [calls EXCEPT ![c] = IdleCall]
    /\ UNCHANGED <<currentCrypto, model, trainingHistory, rawData,
                   processedData, scaler, cache, session, events, unloaded>>
    /\ UNCHANGED dataVars

\* The catch block of predict().
PredictCatch(result) ==
    /\ SetProcessing(FALSE)
    /\ Returned("predict", result)

\* predict(), up to its await: guard, getLatestFeatures, and
\* ModelBuilder.predict up to prediction.data().
Predict ==
    /\ ~unloaded
    /\ IF Busy \/ ~applicationState.modelTrained
       THEN /\ Returned("predict", "noop")
            /\ UNCHANGED <<applicationState, calls, events>>
       ELSE LET features == GetLatestFeatures(processedData)
            IN  /\ Counted
                /\ IF features.null
                   THEN /\ PredictCatch("NoFeatures")
                        /\ UNCHANGED calls
                   ELSE IF model = 0
                   THEN /\ PredictCatch("NotReady")
                        /\ UNCHANGED calls
                   ELSE /\ HasFree
                        /\ SetProcessing(TRUE)
                        /\ calls' = [calls EXCEPT ![Free] =
                              [IdleCall EXCEPT !.op = "predict",
                                               !.pc = "result",
                                               !.session = session,
                                               !.mdl = model,
                                               !.scaler = features.scaler]]
                        /\ Returned("predict", "pending")
    /\ UNCHANGED <<currentCrypto, model, trainingHistory, tfModels, chart,
                   metrics, rawData, processedData, scaler, cache, session,
                   unloaded>>
    /\ UNCHANGED dataVars

\* predict(), from the model's output to its end.
PredictFinish(c) ==
    /\ ~unloaded
    /\ calls[c].op = "predict" /\ calls[c].pc = "result"
    /\ IF HasCurrentPrice(rawData)
       THEN /\ SetProcessing(FALSE)
            /\ Returned("predict", "forecast")
       ELSE PredictCatch("NoCurrentPrice")
    /\ calls' = [calls EXCEPT ![c] = IdleCall]
    /\ UNCHANGED <<currentCrypto, model, trainingHistory, tfModels, chart,
                   metrics, rawData, processedData, scaler, cache, session,
                   events, unloaded>>
    /\ UNCHANGED dataVars

Next ==
    \/ \E k \in Cryptos : SelectCrypto(k)
    \/ Reset
    \/ BeforeUnload
    \/ LoadData
    \/ \E c \in Slots, rd \in AllSeries : LoadDataResume(c, rd)
    \/ TrainModel
    \/ \E c \in Slots, ok \in BOOLEAN, loss \in {"finite", "NaN"} :
          TrainModelAfterFit(c, ok, loss)
    \/ \E c \in Slots : TrainModelAfterEvaluate(c)
    \/ \E c \in Slots : TrainModelFinish(c)
    \/ Predict
    \/ \E c \in Slots : PredictFinish(c)

Spec == Init /\ [][Next]_vars

(***************************************************************************)
(* Properties of the controller.                                           *)
(***************************************************************************)
LiveModels == {m \in DOMAIN tfModels : tfModels[m].disposed = 0}

\* A trainModel() invocation started in an earlier session.
Abandoned(c) == calls[c].op = "train" /\ calls[c].session # session

\* The step is the handler call itself, not the resumption of an invocation.
RequestStep(op) == events' = events + 1 /\ outcome'.op = op

\* The current model exists and its fit has finished.
TrainingCompleted == model # 0 /\ tfModels[model].fitted

\* C1: at most one of loadData, trainModel and predict is in flight at any
\* time; a call made while another is pending starts no work.
C1_SingleFlight == Cardinality(Pending) <= 1

\* C2: a trainModel run abandoned by selectCrypto or reset writes nothing to
\* applicationState, metrics, chart or model when it resumes.
C2_AbandonedRunWritesNothing ==
    [][\A c \in Slots :
          (Abandoned(c) /\ calls'[c] # calls[c]) =>
              /\ applicationState' = applicationState
              /\ metrics' = metrics
              /\ chart' = chart
              /\ model' = model]_vars

\* C3: the number of Models built and not yet disposed is at most one.
C3_AtMostOneLiveModel == Cardinality(LiveModels) <= 1

\* C4: no Model is released twice, and after reset or page unload every Model
\* that was built has been released.
C4_ReleasedExactlyOnce ==
    /\ \A m \in DOMAIN tfModels : tfModels[m].disposed <= 1
    /\ outcome.op \in {"reset", "beforeunload"} =>
          \A m \in DOMAIN tfModels : tfModels[m].disposed = 1

\* C5: a predict request made while training has not completed for the
\* current session ends in a not-ready error, never silently or in a forecast.
C5_PredictBeforeTrainingRaises ==
    (/\ outcome.op = "predict"
     /\ outcome.result \in {"noop", "NoFeatures", "NotReady", "pending"}
     /\ ~TrainingCompleted)
        => outcome.result = "NotReady"

\* C7: the features predict passes to the Model were normalized with the
\* scaler that normalized that Model's training data.
C7_PredictUsesTrainingScaler ==
    \A c \in Slots :
        calls[c].op = "predict" => calls[c].scaler = tfModels[calls[c].mdl].scaler

\* C10: a trainModel call whose split has fewer than 10 train vectors or fewer
\* than 5 test vectors reports InsufficientData, builds no Model and starts
\* no training.
C10_InsufficientSplitFails ==
    [][(/\ RequestStep("trainModel")
        /\ \/ Length(SplitData(processedData, trainTestSplitNum, trainTestSplitDen).train) < 10
           \/ Length(SplitData(processedData, trainTestSplitNum, trainTestSplitDen).test) < 5)
          => /\ outcome'.result = "InsufficientData"
             /\ tfModels' = tfModels
             /\ model' = model
             /\ calls' = calls
             /\ ~applicationState'.isProcessing]_vars

\* C10 witness: trainModel refused a loaded series that split 9 / 3.
C10_Witness ==
    /\ outcome = [op |-> "trainModel", result |-> "InsufficientData"]
    /\ Length(SplitData(processedData, trainTestSplitNum, trainTestSplitDen).train) = 9
    /\ Length(SplitData(processedData, trainTestSplitNum, trainTestSplitDen).test) = 3

\* processFeatures: the six entries of one features array.
FeatureNames == <<"ma5", "ma10", "momentum", "volatility", "volumeRatio", "rsi">>

\* The latest step was loadData() running processFeatures() on a new series.
Processed ==
    outcome.op = "loadData" /\ outcome.result \in {"loaded", "FeatureProcessingError"}

\* C11: for a series of n >= 16 points processFeatures does not fail and
\* returns n - 15 vectors (14 is the warm-up), each of 6 values.
C11_VectorCount ==
    (Processed /\ rawData.len >= 14 + 2) =>
        /\ outcome.result = "loaded"
        /\ Length(processedData) = rawData.len - 14 - 1
        /\ Len(FeatureNames) = 6

\* The step is loadData() resuming with the series its fetch acquired.
AcquiredStep == \E c \in Slots : calls[c].op = "load" /\ calls'[c].op = "none"

\* C12: processFeatures on an unchanged series returns the cached vectors and
\* leaves the cache as it is; once a fetch has replaced the series, or after
\* reset, no entry made from an earlier series is in the cache or returned.
C12_CacheInvalidated ==
    [][/\ GenerateCacheKey(rawData) \in DOMAIN cache =>
             LET r == ProcessFeatures(rawData, processedData, scaler, cache)
             IN r.processedData = cache[GenerateCacheKey(rawData)] /\ r.cache = cache
       /\ AcquiredStep =>
             /\ GenerateCacheKey(rawData') \notin DOMAIN cache
             /\ DOMAIN cache' \subseteq {GenerateCacheKey(rawData')}
       /\ RequestStep("reset") => cache' = <<>>]_vars

\* C15: whatever the market-data request did, the fetch raised nothing past
\* loadData and left a non-empty series of at least 100 observations.  (Order
\* and duplicates of the observations are not part of a symbolic series.)
C15_FetchReturnsUsableSeries ==
    Processed => rawData # NoData /\ rawData.len >= 100

\* The step is a move of the trainModel() invocation in slot c.
TrainStep(c) == calls[c].op = "train" /\ calls'[c] # calls[c]

\* C16: a run whose fit ended with a NaN or infinite loss ends in a training
\* error: it does not go on as a success and does not set modelTrained.
C16_DivergedRunFails ==
    [][\A c \in Slots :
          (TrainStep(c) /\ tfModels'[calls[c].mdl].loss = "NaN") =>
              /\ outcome'.result = "TrainingFailed"
              /\ applicationState'.modelTrained => applicationState.modelTrained]_vars

\* C17: when a training run fails, the Model built for it and its input
\* tensors are disposed, the session's model is not that Model, the failure
\* is reported, and modelTrained is false.
C17_FailedRunCleansUp ==
    [][/\ \A c \in Slots :
             (TrainStep(c) /\ calls'[c].op = "none" /\ outcome'.result # "trained") =>
                 /\ tfModels'[calls[c].mdl].disposed = 1
                 /\ tfModels'[calls[c].mdl].tensors = 0
                 /\ model' # calls[c].mdl
                 /\ outcome'.op = "trainModel"
                 /\ ~applicationState'.modelTrained
       /\ (RequestStep("trainModel") /\ outcome'.result = "InsufficientData") =>
             ~applicationState'.modelTrained]_vars

\* C24: after processFeatures on a series of length n, getLatestFeatures
\* returns the vector of the final index n-1, and that vector is in neither
\* partition of splitData.
C24_LatestIsFinalIndex ==
    (outcome.op = "loadData" /\ outcome.result = "loaded") =>
        LET latest == GetLatestFeatures(processedData)
            split == SplitData(processedData, trainTestSplitNum, trainTestSplitDen)
        IN /\ ~latest.null
           /\ latest.index = rawData.len - 1
           /\ latest.index \notin split.train.lo..split.train.hi
           /\ latest.index \notin split.test.lo..split.test.hi

\* C25: while the page is open, modelTrained implies that modelBuilder holds
\* a Model whose training run has completed and that has not been disposed.
C25_TrainedImpliesReadyModel ==
    (~unloaded /\ applicationState.modelTrained) =>
        /\ IsReady
        /\ tfModels[model].fitted
        /\ tfModels[model].disposed = 0

\* C26: the guard is always released.  Whenever isProcessing is true some
\* invocation of loadData, trainModel or predict is still in flight, and the
\* step in which an invocation ends, by return or by its catch block, leaves
\* isProcessing false; so once every awaited call has settled the guard is
\* free again.
C26_GuardReleased ==
    [][/\ applicationState'.isProcessing => Pending' # {}
       /\ \A c \in Slots :
             (calls[c].op # "none" /\ calls'[c].op = "none") =>
                 ~applicationState'.isProcessing]_vars

\* C26 witness: a trainModel run ended in its catch block and the guard is
\* released.
C26_Witness ==
    /\ outcome = [op |-> "trainModel", result |-> "TrainingFailed"]
    /\ ~applicationState.isProcessing

\* C29: whenever processFeatures has returned, by recomputation or by a
\* cache hit, this.scaler is the scaler that normalized the vectors now in
\* this.processedData.
C29_ScalerMatchesVectors ==
    (outcome.op = "loadData" /\ outcome.result = "loaded") =>
        scaler = processedData.scaler

(***************************************************************************)
(* Numbers.  A JavaScript number is a binary floating-point value: here    *)
(* m * 2^e with a significand m of MantissaBits bits (0 is m = 0), and     *)
(* every sum and quotient is rounded to the nearest such value, ties to    *)
(* the even significand.                                                   *)
(***************************************************************************)
Zero == [m |-> 0, e |-> 0]

RECURSIVE RoundTo(_, _, _)
\* The number nearest to (num / den) * 2^e, for num >= 0 and den > 0.
RoundTo(num, den, e) ==
    IF num = 0 THEN Zero
    ELSE IF num \div den >= 2^MantissaBits THEN RoundTo(num, 2 * den, e + 1)
    ELSE IF num \div den < 2^(MantissaBits - 1) THEN RoundTo(2 * num, den, e - 1)
    ELSE LET q == num \div den
             r == num - q * den
             up == 2 * r > den \/ (2 * r = den /\ q % 2 = 1)
             m == IF up THEN q + 1 ELSE q
         IN IF m = 2^MantissaBits
            THEN [m |-> 2^(MantissaBits - 1), e |-> e + 1]
            ELSE [m |-> m, e |-> e]

Number(n) == RoundTo(n, 1, 0)

MinOf(a, b) == IF a <= b THEN a ELSE b

\* The integer x / 2^e0, for e0 <= x.e.
Scaled(x, e0) == x.m * 2^(x.e - e0)

\* a + b
Plus(a, b) ==
    IF a.m = 0 THEN b
    ELSE IF b.m = 0 THEN a
    ELSE LET e0 == MinOf(a.e, b.e)
         IN RoundTo(Scaled(a, e0) + Scaled(b, e0), 1, e0)

\* a / n for an array length n
DividedBy(a, n) == RoundTo(a.m, n, a.e)

(***************************************************************************)
(* DataProcessor.normalizeFeatures on numbers.                             *)
(***************************************************************************)
RECURSIVE SumOfFeature(_, _, _)
\* reduce((sum, item) => sum + item.features[i], 0) over the first k items
SumOfFeature(rows, i, k) ==
    IF k = 0 THEN Zero ELSE Plus(SumOfFeature(rows, i, k - 1), rows[k][i])

Mean(rows, i) == DividedBy(SumOfFeature(rows, i, Len(rows)), Len(rows))

\* The exponent in which every term of feature i and the mean are integers.
CommonExponent(rows, i, mean) ==
    LET es == {rows[k][i].e : k \in 1..Len(rows)} \cup {mean.e}
    IN CHOOSE e0 \in es : \A e1 \in es : e0 <= e1

\* item.features[i] - means[i], in units of 2^e0.  The rounding of the
\* difference is left out: it is zero exactly when the two numbers are equal.
Deviation(x, mean, e0) == Scaled(x, e0) - Scaled(mean, e0)

RECURSIVE SumOfSquares(_, _, _, _, _)
\* reduce((sum, item) => sum + Math.pow(item.features[i] - means[i], 2), 0)
SumOfSquares(rows, i, mean, e0, k) ==
    IF k = 0 THEN 0
    ELSE SumOfSquares(rows, i, mean, e0, k - 1)
            + Deviation(rows[k][i], mean, e0) * Deviation(rows[k][i], mean, e0)

RECURSIVE GCD(_, _)
GCD(a, b) == IF b = 0 THEN a ELSE GCD(b, a % b)

RECURSIVE Dyadic(_, _, _)
\* (num / den) * 2^e with num and den odd, or 0 as 0 / 1.
Dyadic(num, den, e) ==
    IF num = 0 THEN [num |-> 0, den |-> 1, e |-> 0]
    ELSE IF num % 2 = 0 THEN Dyadic(num \div 2, den, e + 1)
    ELSE IF den % 2 = 0 THEN Dyadic(num, den \div 2, e - 1)
    ELSE [num |-> num, den |-> den, e |-> e]

\* The value (num / den) * 2^e in lowest terms: equal values, equal records.
Ratio(num, den, e) == Dyadic(num \div GCD(num, den), den \div GCD(num, den), e)

\* variance: the sum of squares over the length.  The roundings of pow, of
\* the sum and of the quotient are left out: the result is zero exactly when
\* every term equals the mean.
Variance(rows, i, mean) ==
    LET e0 == CommonExponent(rows, i, mean)
    IN Ratio(SumOfSquares(rows, i, mean, e0, Len(rows)), Len(rows), 2 * e0)

One == [sqrtOf |-> [num |-> 1, den |-> 1, e |-> 0]]

\* Math.sqrt(variance) || 1: the root of a non-zero variance is non-zero
Std(rows, i, mean) ==
    IF Variance(rows, i, mean).num = 0 THEN One
    ELSE [sqrtOf |-> Variance(rows, i, mean)]

\* (item.features[i] - means[i]) / stds[i]
Normalized(x, mean, std, e0) ==
    [dev |-> Deviation(x, mean, e0), e |-> e0, std |-> std]

\* means and stds over all the rows
Fit(rows) ==
    IF Len(rows) = 0 THEN NoStats
    ELSE LET means == [i \in 1..Len(rows[1]) |-> Mean(rows, i)]
         IN [means |-> means,
             stds |-> [i \in 1..Len(rows[1]) |-> Std(rows, i, means[i])]]

\* normalizeFeatures(): fit over processedData, normalize it in place
NormalizeRows(rows, sc) ==
    IF Len(rows) = 0 THEN [rows |-> rows, scaler |-> sc]
    ELSE LET fit == Fit(rows)
         IN [rows |-> [k \in 1..Len(rows) |->
                         [i \in 1..Len(rows[1]) |->
                            Normalized(rows[k][i], fit.means[i], fit.stds[i],
                                       CommonExponent(rows, i, fit.means[i]))]],
             scaler |-> fit]

(***************************************************************************)
(* splitData on arrays of items: the DataProcessor's (dataProcessor.js)    *)
(* and the variant with a ratio parameter that fills an empty              *)
(* processedData first (main.js).                                          *)
(***************************************************************************)
Slice(v, from, to) == [k \in 1..(to - from + 1) |-> v[from + k - 1]]

\* slice(0, splitIndex) and slice(splitIndex)
SplitRows(v, num, den) ==
    [train |-> Slice(v, 1, SplitIndex(Len(v), num, den)),
     test |-> Slice(v, SplitIndex(Len(v), num, den) + 1, Len(v))]

Values == {Number(5), Number(6)}
Vectors == [1..FeatureCount -> Values]
Matrices == UNION {[1..n -> Vectors] : n \in 0..MaxRows}

InitData ==
    /\ InitCtl
    /\ InitFn
    /\ loaded \in Matrices
    /\ featureRows = loaded
    /\ featureScaler = NoStats
    /\ splits = <<>>

\* The object is of one class: no call of the other class was made on it.
OnlyCalls(variant) == \A j \in DOMAIN splits : splits[j].variant = variant

\* normalizeFeatures(), as processFeatures calls it on the rows it built
NormalizeFeaturesCall ==
    /\ OnlyCalls("fixed")
    /\ featureScaler = NoStats
    /\ Len(featureRows) > 0
    /\ featureRows' = NormalizeRows(featureRows, featureScaler).rows
    /\ featureScaler' = NormalizeRows(featureRows, featureScaler).scaler
    /\ UNCHANGED <<loaded, splits>>
    /\ UNCHANGED fnVars
    /\ UNCHANGED ctlVars

SplitRecord(variant, v, parts, after) ==
    [variant |-> variant, v |-> v, train |-> parts.train, test |-> parts.test,
     after |-> after]

\* DataProcessor.splitData() of dataProcessor.js
SplitDataCall ==
    /\ OnlyCalls("fixed")
    /\ Len(splits) < MaxSplits
    /\ splits' = Append(splits,
                    SplitRecord("fixed", featureRows,
                        SplitRows(featureRows, trainTestSplitNum, trainTestSplitDen),
                        featureRows))
    /\ UNCHANGED <<loaded, featureRows, featureScaler>>
    /\ UNCHANGED fnVars
    /\ UNCHANGED ctlVars

\* DataProcessor.splitData(trainRatio = 0.8) of main.js: an empty
\* processedData is first filled by processFeatures(), whose vectors gen come
\* from rawData or, when that is short, from generated random data.
SplitDataLazyCall(gen) ==
    /\ OnlyCalls("lazy")
    /\ Len(splits) < MaxSplits
    /\ featureScaler = NoStats
    /\ featureRows' = IF Len(featureRows) = 0 THEN gen ELSE featureRows
    /\ splits' = Append(splits,
                    SplitRecord("lazy", featureRows,
                        SplitRows(featureRows', trainTestSplitNum, trainTestSplitDen),
                        featureRows'))
    /\ UNCHANGED <<loaded, featureScaler>>
    /\ UNCHANGED fnVars
    /\ UNCHANGED ctlVars

NextData ==
    \/ NormalizeFeaturesCall
    \/ SplitDataCall
    \/ \E gen \in Matrices \ {<<>>} : SplitDataLazyCall(gen)

SpecData == InitData /\ [][NextData]_vars

(***************************************************************************)
(* Properties of normalizeFeatures and splitData.                          *)
(***************************************************************************)
\* The rows a split of the loaded rows gives to training.
TrainRows == SplitRows(loaded, trainTestSplitNum, trainTestSplitDen).train

AllEqual(rows, i) == \A j, k \in 1..Len(rows) : rows[j][i] = rows[k][i]

\* C6: the scaler holds the means and stds of the train partition alone.
C6_ScalerFitOnTrainOnly ==
    (featureScaler # NoStats /\ Len(TrainRows) > 0) => featureScaler = Fit(TrainRows)

\* C8: after normalization every std is non-zero, and a feature that is equal
\* in all vectors has std 1 and normalized values 0.
C8_ZeroVarianceGuard ==
    featureScaler # NoStats =>
        \A i \in 1..FeatureCount :
            /\ featureScaler.stds[i].sqrtOf.num # 0
            /\ AllEqual(loaded, i) =>
                  /\ featureScaler.stds[i] = One
                  /\ \A k \in 1..Len(featureRows) : featureRows[k][i].dev = 0

\* C9: every splitData call returns the prefix of length floor(n * ratio) and
\* the remaining suffix of its input v, which together are v; v is left as it
\* was, and two calls on the same v return the same partitions.
C9_SplitLossless ==
    /\ \A j \in DOMAIN splits :
          LET s == splits[j]
              k == SplitIndex(Len(s.v), trainTestSplitNum, trainTestSplitDen)
          IN /\ s.train = SubSeq(s.v, 1, k)
             /\ s.test = SubSeq(s.v, k + 1, Len(s.v))
             /\ s.train \o s.test = s.v
             /\ s.after = s.v
    /\ \A j, k \in DOMAIN splits :
          splits[j].v = splits[k].v =>
              splits[j].train = splits[k].train /\ splits[j].test = splits[k].test

(***************************************************************************)
(* ModelBuilder.calculateMetrics.  Its inputs are integers, so every sum   *)
(* and every test against 0 is exact; a quotient is kept as the fraction   *)
(* whose nearest number the code holds.  NaN and the infinities are values.*)
(***************************************************************************)
NaN == [k |-> "NaN", num |-> 0, den |-> 1]
Infinity(sign) == [k |-> "Infinity", num |-> sign, den |-> 1]

AbsInt(i) == IF i < 0 THEN -i ELSE i
SignInt(i) == IF i < 0 THEN -1 ELSE IF i = 0 THEN 0 ELSE 1

\* The finite value num / den in lowest terms with a positive denominator.
Q(num, den) ==
    LET g == GCD(AbsInt(num), AbsInt(den))
    IN [k |-> "finite", num |-> SignInt(den) * (num \div g) * SignInt(g),
        den |-> AbsInt(den) \div g]

\* x + y
QAdd(x, y) ==
    IF x.k = "NaN" \/ y.k = "NaN" THEN NaN
    ELSE IF x.k = "Infinity" /\ y.k = "Infinity"
         THEN IF x.num = y.num THEN x ELSE NaN
    ELSE IF x.k = "Infinity" THEN x
    ELSE IF y.k = "Infinity" THEN y
    ELSE Q(x.num * y.den + y.num * x.den, x.den * y.den)

\* -x
QNeg(x) == [x EXCEPT !.num = -x.num]

\* x - y
QSub(x, y) == QAdd(x, QNeg(y))

\* x * y
QMul(x, y) ==
    IF x.k = "NaN" \/ y.k = "NaN" THEN NaN
    ELSE IF x.k = "Infinity" \/ y.k = "Infinity"
         THEN IF x.num = 0 \/ y.num = 0 THEN NaN
              ELSE Infinity(SignInt(x.num) * SignInt(y.num))
    ELSE Q(x.num * y.num, x.den * y.den)

\* x / y
QDiv(x, y) ==
    IF x.k = "NaN" \/ y.k = "NaN" THEN NaN
    ELSE IF y.k = "Infinity"
         THEN IF x.k = "Infinity" THEN NaN ELSE Q(0, 1)
    ELSE IF y.num = 0
         THEN IF x.num = 0 THEN NaN ELSE Infinity(SignInt(x.num))
    ELSE IF x.k = "Infinity" THEN Infinity(x.num * SignInt(y.num))
    ELSE Q(x.num * y.den, x.den * y.num)

\* Math.abs(x)
QAbs(x) == [x EXCEPT !.num = AbsInt(x.num)]

\* Math.max(0, x)
MathMax0(x) == IF x.k = "NaN" THEN NaN ELSE IF x.num < 0 THEN Q(0, 1) ELSE x

\* x >= 0, which no NaN satisfies
NonNegative(x) == x.k # "NaN" /\ x.num >= 0

\* array[i] in arithmetic: an index outside the array reads undefined
Element(array, i) == IF i \in DOMAIN array THEN Q(array[i], 1) ELSE NaN

RECURSIVE SumOf(_, _)
\* actuals.reduce((sum, val) => sum + val, 0) over the first k elements
SumOf(array, k) == IF k = 0 THEN Q(0, 1) ELSE QAdd(SumOf(array, k - 1), Element(array, k))

RECURSIVE Accumulate(_, _, _, _)
\* The loop for (i = 0; i < n; i++): mae, mse and totalSq after k rounds.
Accumulate(predictions, actuals, meanActual, k) ==
    IF k = 0 THEN [mae |-> Q(0, 1), mse |-> Q(0, 1), totalSq |-> Q(0, 1)]
    ELSE LET acc == Accumulate(predictions, actuals, meanActual, k - 1)
             diff == QSub(Element(predictions, k), Element(actuals, k))
             dev == QSub(Element(actuals, k), meanActual)
         IN [mae |-> QAdd(acc.mae, QAbs(diff)),
             mse |-> QAdd(acc.mse, QMul(diff, diff)),
             totalSq |-> QAdd(acc.totalSq, QMul(dev, dev))]

\* calculateMetrics(predictions, actuals): it has no throw statement.
CalculateMetrics(predictions, actuals) ==
    LET n == Len(predictions)
        meanActual == QDiv(SumOf(actuals, Len(actuals)), Q(n, 1))
        acc == Accumulate(predictions, actuals, meanActual, n)
        mae == QDiv(acc.mae, Q(n, 1))
        mse == QDiv(acc.mse, Q(n, 1))
        r2 == IF acc.totalSq = Q(0, 1) THEN Q(0, 1)
              ELSE QSub(Q(1, 1), QDiv(QMul(mse, Q(n, 1)), acc.totalSq))
        accuracy == MathMax0(QMul(QSub(Q(1, 1), QDiv(mae, meanActual)), Q(100, 1)))
    IN [threw |-> "none", mae |-> mae, mse |-> mse, rmse |-> [sqrtOf |-> mse],
        r2 |-> r2, accuracy |-> accuracy, sampleSize |-> n]

MetricValues == {0, 1, 2, 3, 4}
MetricArrays == UNION {[1..n -> MetricValues] : n \in 0..MaxLength}

InitMetrics ==
    /\ InitCtl
    /\ InitNum
    /\ input \in [fn : {"calculateMetrics"}, predictions : MetricArrays,
                  actuals : MetricArrays]
    /\ output = None

\* calculateMetrics(predictions, actuals)
CalculateMetricsCall ==
    /\ output = None
    /\ output' = CalculateMetrics(input.predictions, input.actuals)
    /\ UNCHANGED input
    /\ UNCHANGED numVars
    /\ UNCHANGED ctlVars

NextMetrics == CalculateMetricsCall

SpecMetrics == InitMetrics /\ [][NextMetrics]_vars

RECURSIVE SumAbs(_, _, _)
SumAbs(p, a, k) == IF k = 0 THEN 0 ELSE SumAbs(p, a, k - 1) + AbsInt(p[k] - a[k])

RECURSIVE SumSq(_, _, _)
SumSq(p, a, k) ==
    IF k = 0 THEN 0 ELSE SumSq(p, a, k - 1) + (p[k] - a[k]) * (p[k] - a[k])

\* C13: calculateMetrics on empty sequences or on sequences of different
\* lengths raises a validation error.
C13_ValidatesInput ==
    (/\ output # None
     /\ Len(input.predictions) = 0 \/ Len(input.predictions) # Len(input.actuals))
        => output.threw = "ValidationError"

\* C14: for equal-length non-empty integer sequences n * mae is the sum of
\* |p - a|, n * mse the sum of (p - a)^2, sampleSize is n, r2 is 0 when all
\* actuals are equal, and accuracy >= 0.
C14_MetricsValues ==
    (/\ output # None
     /\ Len(input.predictions) > 0
     /\ Len(input.predictions) = Len(input.actuals))
        => LET p == input.predictions
               a == input.actuals
               n == Len(p)
           IN /\ output.threw = "none"
              /\ QMul(Q(n, 1), output.mae) = Q(SumAbs(p, a, n), 1)
              /\ QMul(Q(n, 1), output.mse) = Q(SumSq(p, a, n), 1)
              /\ output.sampleSize = n
              /\ (\A j, k \in 1..n : a[j] = a[k]) => output.r2 = Q(0, 1)
              /\ NonNegative(output.accuracy)
              /\ (p = <<1, 2, 3>> /\ a = <<1, 2, 4>>) =>
                    output.mae = Q(1, 3) /\ output.mse = Q(1, 3)

(***************************************************************************)
(* ModelBuilder.trainModel and its observer.  model.fit runs the epochs    *)
(* 0 .. epochs-1 in order and calls callbacks.onEpochEnd(epoch, logs) at   *)
(* the end of each; it resolves after the last epoch and may reject at any *)
(* point before.                                                           *)
(***************************************************************************)
ModelConfig ==
    [neural |-> [standard |-> [epochs |-> 100], iso20022 |-> [epochs |-> 150]],
     deep |-> [standard |-> [epochs |-> 120], iso20022 |-> [epochs |-> 180]],
     lstm |-> [standard |-> [epochs |-> 130], iso20022 |-> [epochs |-> 200]]]

\* const config = MODEL_CONFIG[modelType][configType]
ConfigOf(run) == ModelConfig[run.modelType][run.configType]

\* The event reporting 0-based epoch numbers.
OnEpochEnd_ZeroBased(epoch, config) == [epoch |-> epoch, totalEpochs |-> config.epochs]

\* callbacks.onEpochEnd: the event handed to onProgress
OnEpochEnd(epoch, config) == [epoch |-> epoch + 1, totalEpochs |-> config.epochs]

InitFit ==
    /\ InitCtl
    /\ InitNum
    /\ input \in [fn : {"trainModel"}, modelType : {"neural", "deep", "lstm"},
                  configType : {"standard", "iso20022"}]
    /\ output = None

\* trainModel(...) up to await this.model.fit(...)
TrainModelCall ==
    /\ output = None
    /\ output' = [fn |-> "trainModel", status |-> "fitting", epoch |-> 0, events |-> <<>>]
    /\ UNCHANGED <<input, numVars, ctlVars>>

\* model.fit finishes one epoch and calls onEpochEnd
FitEpoch ==
    /\ output # None /\ output.status = "fitting"
    /\ output.epoch < ConfigOf(input).epochs
    /\ output' = [output EXCEPT
                     !.epoch = @ + 1,
                     !.events = Append(@, OnEpochEnd(output.epoch, ConfigOf(input)))]
    /\ UNCHANGED <<input, numVars, ctlVars>>

\* model.fit resolves: trainModel returns the history
FitResolve ==
    /\ output # None /\ output.status = "fitting"
    /\ output.epoch = ConfigOf(input).epochs
    /\ output' = [output EXCEPT !.status = "returned"]
    /\ UNCHANGED <<input, numVars, ctlVars>>

\* model.fit rejects: trainModel throws 'Model training failed'
FitReject ==
    /\ output # None /\ output.status = "fitting"
    /\ output' = [output EXCEPT !.status = "threw"]
    /\ UNCHANGED <<input, numVars, ctlVars>>

NextFit == TrainModelCall \/ FitEpoch \/ FitResolve \/ FitReject

SpecFit == InitFit /\ [][NextFit]_vars

\* C18: the events delivered in one run are those of epoch 1, 2, ... in
\* order, one per finished epoch, each with the configured totalEpochs; a
\* run that returned delivered all of them, and none is delivered after the
\* run has returned or thrown.
C18_OneEventPerEpoch ==
    [][/\ output' # None =>
             /\ Len(output'.events) = output'.epoch
             /\ output'.epoch <= ConfigOf(input').epochs
             /\ \A j \in DOMAIN output'.events :
                   output'.events[j] =
                       [epoch |-> j, totalEpochs |-> ConfigOf(input').epochs]
             /\ output'.status = "returned" =>
                   Len(output'.events) = ConfigOf(input').epochs
       /\ (output # None /\ output.status # "fitting") =>
             output'.events = output.events]_vars

\* C18 witness: a run of the 200-epoch configuration returned.
C18_Witness ==
    /\ output # None
    /\ output.status = "returned"
    /\ Len(output.events) = 200
    /\ output.events[200] = [epoch |-> 200, totalEpochs |-> 200]

(***************************************************************************)
(* The periodic price refresh.  A JavaScript value is a record of its type *)
(* and, for a number, its amount in hundredths of a dollar.                *)
(***************************************************************************)
Undefined == [t |-> "undefined", v |-> 0]

JsNumber(n) == [t |-> "number", v |-> n]

JsString == [t |-> "string", v |-> 0]

\* this.currentPrice = 0.62
InitialPrice == JsNumber(62)

\* if (newPrice), if (!currentPrice)
Truthy(x) == x.t = "string" \/ (x.t = "number" /\ x.v # 0)

\* What fetch and response.json() give the callback of one tick: the request
\* rejects, the status is not ok, the body is not JSON, the body is null, or
\* the body is an object whose usd entry is absent, 0, a number or a string.
Responses ==
    {[status |-> st, data |-> "none", usd |-> Undefined] :
        st \in {"rejected", "notOk", "badJson"}}
    \cup {[status |-> "ok", data |-> "null", usd |-> Undefined]}
    \cup {[status |-> "ok", data |-> "object", usd |-> u] :
            u \in {Undefined, JsNumber(0), JsNumber(61), JsNumber(63), JsString}}

\* The interval callback of startPriceUpdates(coinId) in main.js
PriceCallback(dp, response) ==
    IF response.status # "ok" \/ response.data = "null"
    THEN [dp EXCEPT !.result = IF response.status = "notOk" THEN "skipped" ELSE "caught"]
    ELSE IF ~Truthy(response.usd)
    THEN [dp EXCEPT !.result = "skipped"]
    ELSE IF dp.priceElement /\ response.usd.t # "number"
    THEN [dp EXCEPT !.currentPrice = response.usd, !.result = "caught"]
    ELSE [dp EXCEPT !.currentPrice = response.usd,
                    !.display = IF dp.priceElement THEN response.usd ELSE @,
                    !.result = "updated"]

\* fetchRealData() and the interval callback of startPriceUpdates() in part_002
FetchRealData(dp, response) ==
    IF response.status # "ok" \/ response.data = "null" \/ ~Truthy(response.usd)
    THEN [dp EXCEPT !.result = "caught"]
    ELSE IF dp.priceElement /\ response.usd.t # "number"
    THEN [dp EXCEPT !.result = "caught"]
    ELSE [dp EXCEPT !.lastPrice = response.usd,
                    !.display = IF dp.priceElement THEN response.usd ELSE @,
                    !.result = "updated"]

InitPrice ==
    /\ InitCtl
    /\ InitNum
    /\ input = None
    /\ \E class \in {"main", "part_002"}, element \in BOOLEAN :
          output = [fn |-> "startPriceUpdates", class |-> class,
                    priceElement |-> element,
                    currentPrice |-> IF class = "main" THEN InitialPrice ELSE Undefined,
                    lastPrice |-> Undefined, display |-> Undefined,
                    updateInterval |-> TRUE, raised |-> FALSE,
                    result |-> "none", ticks |-> 0]

\* One tick of the interval of main.js
PriceCallbackTick ==
    /\ output.fn = "startPriceUpdates" /\ output.class = "main"
    /\ output.updateInterval /\ output.ticks < MaxTicks
    /\ \E response \in Responses :
          /\ input' = response
          /\ output' = [PriceCallback(output, response) EXCEPT !.ticks = @ + 1]
    /\ UNCHANGED <<numVars, ctlVars>>

\* One tick of the interval of part_002
FetchRealDataTick ==
    /\ output.fn = "startPriceUpdates" /\ output.class = "part_002"
    /\ output.updateInterval /\ output.ticks < MaxTicks
    /\ \E response \in Responses :
          /\ input' = response
          /\ output' = [FetchRealData(output, response) EXCEPT !.ticks = @ + 1]
    /\ UNCHANGED <<numVars, ctlVars>>

NextPrice == PriceCallbackTick \/ FetchRealDataTick

SpecPrice == InitPrice /\ [][NextPrice]_vars

\* C19: a tick whose refresh did not go through raises nothing, leaves
\* currentPrice, rawData, processedData and applicationState as they were,
\* and leaves the interval armed for the next tick.
C19_FailedRefreshHarmless ==
    [][(output'.ticks # output.ticks /\ output'.result # "updated") =>
           /\ ~output'.raised
           /\ output'.currentPrice = output.currentPrice
           /\ UNCHANGED <<rawData, processedData, applicationState>>
           /\ output'.updateInterval]_vars

(***************************************************************************)
(* The relative strength index.  Prices are exact fractions; an index of   *)
(* the source is 0-based, so prices[i] of the source is Element(prices,    *)
(* i + 1).                                                                 *)
(***************************************************************************)
\* change > 0
Positive(x) == x.k # "NaN" /\ x.num > 0

\* The index computed as 100 - 100 / rs.
RsiOf_NoOffset(rs) == QSub(Q(100, 1), QDiv(Q(100, 1), rs))

\* 100 - (100 / (1 + rs))
RsiOf(rs) == QSub(Q(100, 1), QDiv(Q(100, 1), QAdd(Q(1, 1), rs)))

RECURSIVE InitialSums(_, _)
\* calculateRSIArray, the loop for (i = 1; i <= period; i++) after k rounds
InitialSums(prices, k) ==
    IF k = 0 THEN [avgGain |-> Q(0, 1), avgLoss |-> Q(0, 1)]
    ELSE LET sums == InitialSums(prices, k - 1)
             change == QSub(Element(prices, k + 1), Element(prices, k))
         IN IF Positive(change)
            THEN [sums EXCEPT !.avgGain = QAdd(@, change)]
            ELSE [sums EXCEPT !.avgLoss = QAdd(@, QAbs(change))]

RECURSIVE RollingAverages(_, _, _)
\* calculateRSIArray: avgGain and avgLoss after round i of the rolling loop,
\* which starts at i = period from the averages of the initial loop.
RollingAverages(prices, period, i) ==
    IF i < period
    THEN LET sums == InitialSums(prices, period)
         IN [avgGain |-> QDiv(sums.avgGain, Q(period, 1)),
             avgLoss |-> QDiv(sums.avgLoss, Q(period, 1))]
    ELSE LET avg == RollingAverages(prices, period, i - 1)
             change == QSub(Element(prices, i + 1), Element(prices, i))
             gain == IF Positive(change) THEN change ELSE Q(0, 1)
             loss == IF Positive(QNeg(change)) THEN QAbs(change) ELSE Q(0, 1)
         IN [avgGain |-> QDiv(QAdd(QMul(avg.avgGain, Q(period - 1, 1)), gain), Q(period, 1)),
             avgLoss |-> QDiv(QAdd(QMul(avg.avgLoss, Q(period - 1, 1)), loss), Q(period, 1))]

\* calculateRSIArray(prices, period)
CalculateRSIArray(prices, period) ==
    [j \in 1..Len(prices) |->
        IF Len(prices) < period + 1 \/ j - 1 < period THEN Q(50, 1)
        ELSE LET avg == RollingAverages(prices, period, j - 1)
                 rs == IF avg.avgLoss = Q(0, 1) THEN Q(100, 1)
                       ELSE QDiv(avg.avgGain, avg.avgLoss)
             IN RsiOf(rs)]

RECURSIVE WindowSums(_, _, _)
\* calculateRSI: the sums of gains and of losses.map(Math.abs) over the
\* changes of for (i = first; i <= last; i++) if (i > 0)
WindowSums(prices, first, last) ==
    IF last < first THEN [gains |-> Q(0, 1), losses |-> Q(0, 1)]
    ELSE LET sums == WindowSums(prices, first, last - 1)
             change == QSub(Element(prices, last + 1), Element(prices, last))
         IN IF last <= 0 THEN sums
            ELSE IF Positive(change) THEN [sums EXCEPT !.gains = QAdd(@, change)]
            ELSE IF Positive(QNeg(change)) THEN [sums EXCEPT !.losses = QAdd(@, QAbs(change))]
            ELSE sums

\* calculateRSI(prices, index, period)
CalculateRSI(prices, index, period) ==
    IF index < period THEN Q(50, 1)
    ELSE LET sums == WindowSums(prices, index - period + 1, index)
             avgGain == QDiv(sums.gains, Q(period, 1))
             avgLoss == QDiv(sums.losses, Q(period, 1))
         IN IF avgLoss = Q(0, 1) THEN Q(100, 1) ELSE RsiOf(QDiv(avgGain, avgLoss))

RsiPrices == {1, 2, 3}

ShortPeriods == {2, 3}

\* Every series of up to MaxSeries prices.
ShortSeries == UNION {[1..n -> RsiPrices] : n \in 0..MaxSeries}

\* Series of n prices: constant, strictly rising, strictly falling,
\* alternating, and rising with a last fall.
Shapes(n) ==
    {[i \in 1..n |-> 2], [i \in 1..n |-> i], [i \in 1..n |-> n + 1 - i],
     [i \in 1..n |-> IF i % 2 = 0 THEN 3 ELSE 1],
     [i \in 1..n |-> IF i = n THEN 1 ELSE i]}

InitRsi ==
    /\ InitCtl
    /\ InitNum
    /\ output = None
    /\ input \in
         {[fn |-> "rsi", prices |-> p, period |-> q] : p \in ShortSeries, q \in ShortPeriods}
         \cup {[fn |-> "rsi", prices |-> p, period |-> rsiPeriod] :
                 p \in UNION {Shapes(n) : n \in rsiPeriod..(rsiPeriod + 1 + ExtraPoints)}}

\* const rsiArray = this.calculateRSIArray(prices)
CalculateRSIArrayCall ==
    /\ input.fn = "rsi"
    /\ output' = [fn |-> "calculateRSIArray", index |-> 0,
                  rsi |-> CalculateRSIArray(input.prices, input.period)]
    /\ UNCHANGED <<input, numVars, ctlVars>>

\* this.calculateRSI(prices, i, 14)
CalculateRSICall ==
    /\ input.fn = "rsi"
    /\ \E index \in 0..(Len(input.prices) - 1) :
          output' = [fn |-> "calculateRSI", index |-> index,
                     rsi |-> <<CalculateRSI(input.prices, index, input.period)>>]
    /\ UNCHANGED <<input, numVars, ctlVars>>

NextRsi == CalculateRSIArrayCall \/ CalculateRSICall

SpecRsi == InitRsi /\ [][NextRsi]_vars

\* C20: every value calculateRSIArray and calculateRSI return is a number
\* between 0 and 100, both included.
C20_RsiInRange ==
    output.fn \in {"calculateRSIArray", "calculateRSI"} =>
        \A j \in DOMAIN output.rsi :
            /\ output.rsi[j].k = "finite"
            /\ output.rsi[j].num >= 0
            /\ output.rsi[j].num <= 100 * output.rsi[j].den

\* C20 witness: the 14-period index of a strictly falling series is 0 at
\* index 14, the first one calculateRSIArray computes.
C20_Witness ==
    /\ output.fn = "calculateRSIArray"
    /\ input.period = rsiPeriod
    /\ Len(input.prices) > rsiPeriod
    /\ \A i \in 2..Len(input.prices) : input.prices[i] < input.prices[i - 1]
    /\ output.rsi[rsiPeriod + 1] = Q(0, 1)

\* C22: an index whose average loss is 0 has the index value 100 exactly,
\* and an index with too little history (index < period, or a series
\* shorter than period + 1) has 50 exactly.
C22_RsiFixedValues ==
    /\ output.fn = "calculateRSIArray" =>
          \A j \in DOMAIN output.rsi :
              IF Len(input.prices) < input.period + 1 \/ j - 1 < input.period
              THEN output.rsi[j] = Q(50, 1)
              ELSE RollingAverages(input.prices, input.period, j - 1).avgLoss = Q(0, 1)
                       => output.rsi[j] = Q(100, 1)
    /\ output.fn = "calculateRSI" =>
          IF output.index < input.period
          THEN output.rsi[1] = Q(50, 1)
          ELSE WindowSums(input.prices, output.index - input.period + 1,
                          output.index).losses = Q(0, 1)
                   => output.rsi[1] = Q(100, 1)

(***************************************************************************)
(* The optimized DataProcessor with its prices.  rawData is the sequence   *)
(* of prices (whole numbers here), an item of processedData is the record  *)
(* processFeatures pushes, and its date is the source index i.  Of the six *)
(* features the momentum is computed; the other five are named by the      *)
(* array or function and the index they are read from.  A scaler is the    *)
(* number of the normalizeFeatures call that created it, 0 for null, and   *)
(* normalized features are the raw ones together with their scaler.  The   *)
(* history field source keeps, for every cache entry, the series it was    *)
(* computed from.                                                          *)
(***************************************************************************)
\* The momentum that is 0 at the first index of the feature loop.
CalculateMomentum_ZeroAtFirst(prices, index) ==
    IF index > FirstIndex
    THEN QSub(QDiv(Element(prices, index + 1), Element(prices, index)), Q(1, 1))
    ELSE Q(0, 1)

\* calculateMomentum(prices, index)
CalculateMomentum(prices, index) ==
    IF index > 0
    THEN QSub(QDiv(Element(prices, index + 1), Element(prices, index)), Q(1, 1))
    ELSE Q(0, 1)

\* processFeatures, the loop body for index i, then normalizeFeatures by sc
ProcessedItem(prices, i, sc) ==
    [features |->
        [raw |-> [ma5 |-> <<"ma5Array", i>>, ma10 |-> <<"ma10Array", i>>,
                  momentum |-> CalculateMomentum(prices, i),
                  volatility |-> <<"calculateVolatility", i>>,
                  volumeRatio |-> <<"calculateVolumeRatio", i>>,
                  rsi |-> <<"rsiArray", i>>],
         scaler |-> sc],
     target |-> prices[i + 2],
     price |-> prices[i + 1],
     date |-> i]

RECURSIVE PriceHash(_, _)
\* generateCacheKey: the reduce over the first k items
PriceHash(prices, k) ==
    IF k = 0 THEN 0 ELSE PriceHash(prices, k - 1) + prices[k] * k

\* generateCacheKey: `processed_${Math.round(priceHash * 1000)}`
CacheKey(prices) == <<"processed", PriceHash(prices, Len(prices)) * 1000>>

\* processFeatures() on the DataProcessor dp
ProcessFeaturesOf(dp) ==
    IF Len(dp.rawData) < MinRawData THEN [dp EXCEPT !.result = "threw"]
    ELSE IF CacheKey(dp.rawData) \in DOMAIN dp.cache
    THEN [dp EXCEPT !.processedData = dp.cache[CacheKey(dp.rawData)],
                    !.result = "cached"]
    ELSE LET items == [j \in 1..(Len(dp.rawData) - 1 - FirstIndex) |->
                          ProcessedItem(dp.rawData, FirstIndex + j - 1, dp.scalers + 1)]
         IN [dp EXCEPT !.processedData = items,
                       !.scaler = dp.scalers + 1,
                       !.scalers = dp.scalers + 1,
                       !.cache = [k \in DOMAIN dp.cache \cup {CacheKey(dp.rawData)} |->
                                     IF k = CacheKey(dp.rawData) THEN items
                                     ELSE dp.cache[k]],
                       !.source = [k \in DOMAIN dp.cache \cup {CacheKey(dp.rawData)} |->
                                      IF k = CacheKey(dp.rawData) THEN dp.rawData
                                      ELSE dp.source[k]],
                       !.result = "computed"]

\* Series of syntheticDataPoints prices that differ in the first two prices,
\* in the price of the first index of the loop and in the last price.
PriceSeries ==
    {[i \in 1..syntheticDataPoints |->
         IF i = 1 THEN a ELSE IF i = 2 THEN b
         ELSE IF i = FirstIndex + 1 THEN c
         ELSE IF i = syntheticDataPoints THEN d ELSE 2] :
       a \in 1..3, b \in 1..3, c \in 2..3, d \in 1..2}

InitFeatures ==
    /\ InitCtl
    /\ InitNum
    /\ input = None
    /\ \E class \in {"optimized", "advanced"} :
          output = [fn |-> "DataProcessor", class |-> class,
                    rawData |-> <<>>, processedData |-> <<>>,
                    scaler |-> 0, scalers |-> 0, cache |-> <<>>, source |-> <<>>,
                    result |-> "none", ops |-> 0]

\* generateRealisticData(cryptoKey, currentPrice, recentChange)
GenerateRealisticDataCall ==
    /\ output.fn = "DataProcessor" /\ output.class = "optimized"
    /\ output.ops < MaxOps
    /\ \E prices \in PriceSeries :
          output' = [output EXCEPT !.rawData = prices, !.result = "generated",
                                   !.ops = @ + 1]
    /\ UNCHANGED <<input, numVars, ctlVars>>

\* processFeatures()
ProcessFeaturesCall ==
    /\ output.fn = "DataProcessor" /\ output.class = "optimized"
    /\ output.ops < MaxOps
    /\ output' = [ProcessFeaturesOf(output) EXCEPT !.ops = @ + 1]
    /\ UNCHANGED <<input, numVars, ctlVars>>

\* processFeatures() of the DataProcessor of main.js on the series prices:
\* one item per index 10 .. length-1.  Of its twenty features the first,
\* current.price, is kept; the others are named by their index.
ProcessFeaturesAdvanced(dp, prices) ==
    [dp EXCEPT
        !.rawData = prices,
        !.processedData =
            [j \in 1..(Len(prices) - FirstIndex) |->
                LET i == FirstIndex + j - 1
                    next == IF i + 1 < Len(prices) - 1 THEN i + 1 ELSE Len(prices) - 1
                IN [features |-> [price |-> prices[i + 1], indicators |-> <<"indicators", i>>],
                    target |-> prices[next + 1]]],
        !.result = "computed"]

\* processFeatures() of main.js, which first calls generateHistoricalData()
\* when it holds fewer than 10 points
ProcessFeaturesAdvancedCall ==
    /\ output.fn = "DataProcessor" /\ output.class = "advanced"
    /\ output.ops < MaxOps
    /\ \E prices \in PriceSeries :
          /\ Len(output.rawData) >= 10 => prices = output.rawData
          /\ output' = [ProcessFeaturesAdvanced(output, prices) EXCEPT !.ops = @ + 1]
    /\ UNCHANGED <<input, numVars, ctlVars>>

\* reset(), which in both classes empties rawData and processedData
ResetCall ==
    /\ output.fn = "DataProcessor" /\ output.ops < MaxOps
    /\ output' = [output EXCEPT !.rawData = <<>>, !.processedData = <<>>,
                                !.scaler = 0, !.cache = <<>>, !.source = <<>>,
                                !.result = "reset", !.ops = @ + 1]
    /\ UNCHANGED <<input, numVars, ctlVars>>

NextFeatures ==
    \/ GenerateRealisticDataCall
    \/ ProcessFeaturesCall
    \/ ProcessFeaturesAdvancedCall
    \/ ResetCall

SpecFeatures == InitFeatures /\ [][NextFeatures]_vars

\* C21 as stated: in the vectors processFeatures computes, the raw momentum
\* is 0 at the first index of the loop and price[i]/price[i-1] - 1 at every
\* other index.
C21_MomentumZeroAtFirst ==
    (output.fn = "DataProcessor" /\ output.class = "optimized"
        /\ output.result = "computed") =>
        \A j \in DOMAIN output.processedData :
            LET item == output.processedData[j]
            IN item.features.raw.momentum =
                  IF j = 1 THEN Q(0, 1)
                  ELSE Q(output.rawData[item.date + 1] - output.rawData[item.date],
                         output.rawData[item.date])

\* C21 amended: in the vectors processFeatures computes, the raw momentum
\* of the vector of every index i of the loop, the first one included, is
\* price[i]/price[i-1] - 1.
C21_MomentumAtEveryIndex ==
    (output.fn = "DataProcessor" /\ output.class = "optimized"
        /\ output.result = "computed") =>
        \A j \in DOMAIN output.processedData :
            LET i == FirstIndex + j - 1
            IN output.processedData[j].features.raw.momentum =
                  Q(output.rawData[i + 1] - output.rawData[i], output.rawData[i])

\* C21 witness: a computed first vector whose price differs from the price
\* before it, so that its momentum is 1/2.
C21_Witness ==
    /\ output.fn = "DataProcessor" /\ output.class = "optimized"
    /\ output.result = "computed"
    /\ output.rawData[FirstIndex + 1] = 3 /\ output.rawData[FirstIndex] = 2
    /\ output.processedData[1].features.raw.momentum = Q(1, 2)

\* C23: the target of the vector built for series index i is price[i+1],
\* the price of an observation that exists and is strictly the next one.
C23_TargetIsNextPrice ==
    (output.fn = "DataProcessor" /\ output.result = "computed") =>
        \A j \in DOMAIN output.processedData :
            LET i == FirstIndex + j - 1
            IN /\ i + 1 < Len(output.rawData)
               /\ output.processedData[j].target = output.rawData[i + 2]

(***************************************************************************)
(* The moving averages, on floating-point numbers: every sum, difference   *)
(* and quotient is rounded.  prices[i] of the source is prices[i + 1].     *)
(***************************************************************************)
\* The number nearest to (num / den) * 2^e, of either sign.
Rounded(num, den, e) ==
    IF num >= 0 THEN RoundTo(num, den, e)
    ELSE [RoundTo(-num, den, e) EXCEPT !.m = -@]

\* a + b for sign = 1, a - b for sign = -1
PlusOrMinus(a, b, sign) ==
    LET e0 == MinOf(a.e, b.e)
    IN Rounded(Scaled(a, e0) + sign * Scaled(b, e0), 1, e0)

RECURSIVE RollingSum(_, _, _)
\* calculateMovingAverageArray: sum after the round of index i of its two
\* loops, the first over i < window, the second from i = window
RollingSum(prices, window, i) ==
    IF i < 0 THEN Zero
    ELSE IF i < window
    THEN PlusOrMinus(RollingSum(prices, window, i - 1), prices[i + 1], 1)
    ELSE PlusOrMinus(PlusOrMinus(RollingSum(prices, window, i - 1), prices[i + 1], 1),
                     prices[i + 1 - window], -1)

\* calculateMovingAverageArray(prices, window)
CalculateMovingAverageArray(prices, window) ==
    [j \in 1..Len(prices) |->
        LET sum == RollingSum(prices, window, j - 1)
        IN Rounded(sum.m, IF j - 1 < window THEN j ELSE window, sum.e)]

RECURSIVE SliceSum(_, _, _)
\* slice.reduce((sum, price) => sum + price, 0) over the first k prices of
\* prices.slice(start, ...)
SliceSum(prices, start, k) ==
    IF k = 0 THEN Zero
    ELSE PlusOrMinus(SliceSum(prices, start, k - 1), prices[start + k], 1)

\* calculateMA(prices, index, period)
CalculateMA(prices, index, period) ==
    LET start == IF index - period + 1 > 0 THEN index - period + 1 ELSE 0
        sum == SliceSum(prices, start, index + 1 - start)
    IN Rounded(sum.m, index + 1 - start, sum.e)

\* Series for the window 5: every series of up to MaxPrices prices 1, 3 or
\* 7; for the window 10: eleven prices, each 3 or 7.
AverageInputs ==
    {[fn |-> "movingAverage", prices |-> p, window |-> 5] :
        p \in UNION {[1..n -> {Number(1), Number(3), Number(7)}] : n \in 0..MaxPrices}}
    \cup {[fn |-> "movingAverage", prices |-> p, window |-> 10] :
            p \in [1..11 -> {Number(3), Number(7)}]}

InitAverage == InitCtl /\ InitNum /\ output = None /\ input \in AverageInputs

\* const ma5Array = this.calculateMovingAverageArray(prices, 5), and with 10
CalculateMovingAverageArrayCall ==
    /\ input.fn = "movingAverage" /\ output = None
    /\ output' = [fn |-> "calculateMovingAverageArray",
                  ma |-> CalculateMovingAverageArray(input.prices, input.window)]
    /\ UNCHANGED <<input, numVars, ctlVars>>

NextAverage == CalculateMovingAverageArrayCall

SpecAverage == InitAverage /\ [][NextAverage]_vars

\* C27: at every index the rolling-sum moving average equals the average of
\* the window ending there, the value calculateMA computes.
C27_RollingEqualsWindow ==
    output.fn = "calculateMovingAverageArray" =>
        \A j \in DOMAIN output.ma :
            output.ma[j] = CalculateMA(input.prices, j - 1, input.window)

\* C28: a cache entry processFeatures returns was computed from a series
\* with exactly the prices of the current rawData.
C28_CacheServesSameSeries ==
    (output.fn = "DataProcessor" /\ output.result = "cached") =>
        output.source[CacheKey(output.rawData)] = output.rawData

(***************************************************************************)
(* The price-refresh timers of the three DataProcessor classes: "main" is  *)
(* main.js:361-683, "legacy" dataProcessor.js:1-188, "part_002" the class  *)
(* of part_002.  timers holds every interval created so far with the coin  *)
(* it polls; updateInterval is an index into it, 0 for null; instrument is *)
(* the key of the latest fetchData and priceOf the coin whose price        *)
(* currentPrice holds.                                                     *)
(***************************************************************************)
\* const coinConfig = this.iso20022Coins[cryptoKey] || { id: cryptoKey }
CoinId(cryptoKey) == IF cryptoKey = "xrp" THEN "ripple" ELSE cryptoKey

\* startPriceUpdates: main.js polls coinId; the other two poll ripple, and
\* only part_002 clears the interval it holds before it creates the next.
StartPriceUpdates(dp, coinId) ==
    LET cleared == IF dp.class = "part_002" /\ dp.updateInterval # 0
                   THEN [dp.timers EXCEPT ![dp.updateInterval].live = FALSE]
                   ELSE dp.timers
        coin == IF dp.class = "main" THEN coinId ELSE "ripple"
    IN [dp EXCEPT !.timers = Append(cleared, [coin |-> coin, live |-> TRUE]),
                  !.updateInterval = Len(dp.timers) + 1]

InitTimers ==
    /\ InitCtl
    /\ InitNum
    /\ input = None
    /\ \E class \in {"main", "legacy", "part_002"} :
          output = [fn |-> "timers", class |-> class, timers |-> <<>>,
                    updateInterval |-> 0, instrument |-> "none",
                    priceOf |-> "demo", result |-> "none", ops |-> 0]

\* fetchData(cryptoKey) of main.js and of the legacy class; fetched tells
\* whether the price request went through (main.js starts no timer when it
\* is rejected).
FetchDataCall ==
    /\ output.fn = "timers" /\ output.class # "part_002" /\ output.ops < MaxOps
    /\ \E cryptoKey \in {"xrp", "stellar"}, fetched \in {"ok", "notOk", "rejected"} :
          LET priced == [output EXCEPT
                            !.instrument = cryptoKey,
                            !.priceOf = IF fetched # "ok" THEN
                                            IF output.class = "main" /\ fetched = "notOk"
                                            THEN "demo" ELSE @
                                        ELSE IF output.class = "main"
                                        THEN CoinId(cryptoKey) ELSE "ripple",
                            !.result = "fetched", !.ops = @ + 1]
          IN /\ input' = [fn |-> "fetchData", cryptoKey |-> cryptoKey]
             /\ output' = IF output.class = "main"
                          THEN IF fetched # "rejected" /\ output.updateInterval = 0
                               THEN StartPriceUpdates(priced, CoinId(cryptoKey))
                               ELSE priced
                          ELSE StartPriceUpdates(priced, "ripple")
    /\ UNCHANGED <<numVars, ctlVars>>

\* startPriceUpdates(coinId) called directly
StartPriceUpdatesCall ==
    /\ output.fn = "timers" /\ output.ops < MaxOps
    /\ \E cryptoKey \in {"xrp", "stellar"} :
          /\ input' = [fn |-> "startPriceUpdates", cryptoKey |-> cryptoKey]
          /\ output' = [StartPriceUpdates(output, CoinId(cryptoKey)) EXCEPT
                           !.result = "started", !.ops = @ + 1]
    /\ UNCHANGED <<numVars, ctlVars>>

\* reset(): clears the interval it holds; main.js also forgets it
ResetTimersCall ==
    /\ output.fn = "timers" /\ output.class # "part_002" /\ output.ops < MaxOps
    /\ input' = [fn |-> "reset", cryptoKey |-> "none"]
    /\ output' = [output EXCEPT
                     !.timers = IF output.updateInterval # 0
                                THEN [@ EXCEPT ![output.updateInterval].live = FALSE]
                                ELSE @,
                     !.updateInterval = IF output.class = "main" THEN 0 ELSE @,
                     !.priceOf = "demo", !.result = "reset", !.ops = @ + 1]
    /\ UNCHANGED <<numVars, ctlVars>>

\* A live interval fires and its request goes through: currentPrice (the
\* displayed price in part_002) becomes the price of the coin it polls.
PriceTimerTick ==
    /\ output.fn = "timers" /\ output.ops < MaxOps
    /\ \E t \in DOMAIN output.timers :
          /\ output.timers[t].live
          /\ input' = [fn |-> "tick", cryptoKey |-> output.timers[t].coin]
          /\ output' = [output EXCEPT !.priceOf = output.timers[t].coin,
                                      !.result = "tick", !.ops = @ + 1]
    /\ UNCHANGED <<numVars, ctlVars>>

NextTimers ==
    FetchDataCall \/ StartPriceUpdatesCall \/ ResetTimersCall \/ PriceTimerTick

SpecTimers == InitTimers /\ [][NextTimers]_vars

\* C30: there is never more than one live interval, reset leaves none, and
\* once fetchData has been called every live interval polls the instrument
\* of the latest fetchData, so a tick writes that instrument's price.
C30_OneTimerForCurrentInstrument ==
    output.fn = "timers" =>
        LET live == {t \in DOMAIN output.timers : output.timers[t].live}
        IN /\ Cardinality(live) <= 1
           /\ output.result = "reset" => live = {}
           /\ output.instrument # "none" =>
                 \A t \in live : output.timers[t].coin = CoinId(output.instrument)
           /\ (output.instrument # "none" /\ output.result = "tick") =>
                 output.priceOf = CoinId(output.instrument)

====
